---- MODULE Spec2Model ----
(***************************************************************************)
(* Model of the knob input controllers of mhull/knob-input-example.        *)
(*                                                                         *)
(*   Spec     : the range-capable controller (src/unnamed/part_000)        *)
(*   SpecConstruct : the same controller, constructed on settings of every *)
(*              kind, the ones its validation has to judge included        *)
(*   SpecKnob : the range-less controller (src/knob.js)                    *)
(*                                                                         *)
(* JavaScript numbers are modelled as exact rationals extended with NaN,   *)
(* +Infinity and -Infinity; null, undefined and text-field strings are     *)
(* values of the same record shape, so that the coercions the code relies  *)
(* on (null -> 0, undefined -> NaN, parseFloat) are computed, not assumed. *)
(* Rounding of IEEE doubles is not modelled.                               *)
(***************************************************************************)
EXTENDS Integers, Sequences, FiniteSets, TLC

VARIABLES
  settings,                                \* settings after initializeSettings
  isDraggingKnob,
  currentAngle,
  currentInteractionInitialKnobAngle,
  currentInteractionInitialClientAngle,
  transform,                               \* degrees of knob.style.transform
  inputValue,                              \* content of input.value
  newKnobAngle,                            \* local of the last update, before the range policy
  event,                                   \* the event handled last
  nEvents,                                 \* number of events handled so far
  pc,                                      \* how the constructor ended: "returned" early or "listening"
  given                                    \* the settings as the caller passed them

vars == <<settings, isDraggingKnob, currentAngle,
          currentInteractionInitialKnobAngle, currentInteractionInitialClientAngle,
          transform, inputValue, newKnobAngle, event, nEvents, pc, given>>

(***************************************************************************)
(* Bounds of the model.                                                    *)
(***************************************************************************)
\* a touch event carries at most MaxTouches changed touches
MaxTouches == 2
\* the user produces at most MaxEvents events
MaxEvents == 3

(***************************************************************************)
(* JavaScript values.                                                      *)
(***************************************************************************)
AbsInt(i) == IF i < 0 THEN -i ELSE i

RECURSIVE GCD(_, _)
GCD(a, b) == IF b = 0 THEN a ELSE GCD(b, a % b)

\* the rational n/d in lowest terms, d # 0
Reduced(n, d, g) == [k |-> "num", n |-> n \div g, d |-> d \div g]

Num(n, d) ==
  IF d = 1 THEN [k |-> "num", n |-> n, d |-> 1]
  ELSE IF d < 0 THEN Reduced(-n, -d, GCD(AbsInt(n), -d))
  ELSE Reduced(n, d, GCD(AbsInt(n), d))

NaN       == [k |-> "nan",       n |-> 0,  d |-> 1]
PosInf    == [k |-> "inf",       n |-> 1,  d |-> 1]
NegInf    == [k |-> "inf",       n |-> -1, d |-> 1]
null      == [k |-> "null",      n |-> 0,  d |-> 1]
undefined == [k |-> "undefined", n |-> 0,  d |-> 1]
\* a string that does not start with a number: Text(0) is "", Text(1) is "abc"
Text(i)   == [k |-> "text", n |-> i, d |-> 0]
\* a string made of the number n/d followed by other characters ("50px")
NumText(n, d) == [k |-> "numtext", n |-> Num(n, d).n, d |-> Num(n, d).d]

\* ToNumber: null is 0, undefined is NaN
ToNumber(v) ==
  CASE v.k = "null"      -> Num(0, 1)
    [] v.k = "undefined" -> NaN
    [] v.k \in {"num", "nan", "inf"} -> v

Sign(v) == IF v.n > 0 THEN 1 ELSE IF v.n < 0 THEN -1 ELSE 0

Inf(s) == IF s > 0 THEN PosInf ELSE NegInf

NegN(x) ==
  CASE x.k = "nan" -> NaN
    [] x.k = "inf" -> Inf(-x.n)
    [] x.k = "num" -> Num(-x.n, x.d)

Neg(a) == NegN(ToNumber(a))

AddN(x, y) ==
  CASE x.k = "nan" \/ y.k = "nan" -> NaN
    [] x.k = "inf" /\ y.k = "inf" -> IF x.n = y.n THEN x ELSE NaN
    [] x.k = "inf" /\ y.k = "num" -> x
    [] x.k = "num" /\ y.k = "inf" -> y
    [] x.k = "num" /\ y.k = "num" -> Num(x.n * y.d + y.n * x.d, x.d * y.d)

Add(a, b) == AddN(ToNumber(a), ToNumber(b))

Sub(a, b) == AddN(ToNumber(a), Neg(b))

MulN(x, y) ==
  CASE x.k = "nan" \/ y.k = "nan" -> NaN
    [] x.k = "inf" \/ y.k = "inf" ->
         IF Sign(x) * Sign(y) = 0 THEN NaN ELSE Inf(Sign(x) * Sign(y))
    [] x.k = "num" /\ y.k = "num" -> Num(x.n * y.n, x.d * y.d)

Mul(a, b) == MulN(ToNumber(a), ToNumber(b))

\* the model has no negative zero: x/0 takes the sign of x
DivN(x, y) ==
  CASE x.k = "nan" \/ y.k = "nan" -> NaN
    [] x.k = "inf" /\ y.k = "inf" -> NaN
    [] x.k = "inf" /\ y.k = "num" -> IF y.n < 0 THEN Inf(-x.n) ELSE x
    [] x.k = "num" /\ y.k = "inf" -> Num(0, 1)
    [] x.k = "num" /\ y.k = "num" ->
         IF y.n = 0
         THEN IF x.n = 0 THEN NaN ELSE Inf(x.n)
         ELSE Num(x.n * y.d, x.d * y.n)

Div(a, b) == DivN(ToNumber(a), ToNumber(b))

AbsN(x) ==
  CASE x.k = "nan" -> NaN
    [] x.k = "inf" -> PosInf
    [] x.k = "num" -> Num(AbsInt(x.n), x.d)

\* Math.abs
Abs(a) == AbsN(ToNumber(a))

FloorN(x) ==
  CASE x.k = "nan" -> NaN
    [] x.k = "inf" -> x
    [] x.k = "num" -> Num(x.n \div x.d, 1)

\* Math.floor
Floor(a) == FloorN(ToNumber(a))

LtN(x, y) ==
  CASE x.k = "nan" \/ y.k = "nan" -> FALSE
    [] x.k = "inf" /\ y.k = "inf" -> x.n < y.n
    [] x.k = "inf" /\ y.k = "num" -> x.n < 0
    [] x.k = "num" /\ y.k = "inf" -> y.n > 0
    [] x.k = "num" /\ y.k = "num" -> x.n * y.d < y.n * x.d

\* a < b; every comparison with NaN is false
Lt(a, b) == LtN(ToNumber(a), ToNumber(b))

Gt(a, b) == Lt(b, a)

\* a <= b
Le(a, b) == Lt(a, b) \/ (ToNumber(a).k # "nan" /\ ToNumber(a) = ToNumber(b))

ModN(x, b) == IF x.k = "num" THEN Sub(x, Mul(b, Floor(Div(x, b)))) ELSE NaN

\* a % b for a >= 0 and b > 0
Mod(a, b) == ModN(ToNumber(a), b)

\* truthiness of a value
Truthy(v) ==
  CASE v.k = "num" -> v.n # 0
    [] v.k = "inf" -> TRUE
    [] v.k \in {"nan", "null", "undefined"} -> FALSE
    [] v.k = "text" -> v.n # 0
    [] v.k = "numtext" -> TRUE

\* typeof v === 'number'
IsNumberType(v) == v.k \in {"num", "nan", "inf"}

\* parseFloat: the leading number of a string, NaN when there is none
parseFloat(v) ==
  CASE v.k \in {"num", "nan", "inf"} -> v
    [] v.k = "numtext" -> Num(v.n, v.d)
    [] v.k \in {"text", "null", "undefined"} -> NaN

(***************************************************************************)
(* The page: the knob's bounding box and the events a user can produce.    *)
(***************************************************************************)
rect == [left   |-> Num(90, 1), right  |-> Num(110, 1),
         top    |-> Num(90, 1), bottom |-> Num(110, 1)]

getCenter ==
  [x |-> Div(Add(rect.left, rect.right), Num(2, 1)),
   y |-> Div(Add(rect.top, rect.bottom), Num(2, 1))]

center == getCenter

Offsets == {-1, 0, 1}

\* page coordinates on the axes and diagonals through the center: the
\* directions whose arcsine is a rational multiple of pi
Pages ==
  {[pageX |-> Add(center.x, Num(o[1], 1)), pageY |-> Add(center.y, Num(o[2], 1))] :
     o \in {o \in Offsets \X Offsets :
              o[1] = 0 \/ o[2] = 0 \/ AbsInt(o[1]) = AbsInt(o[2])}}

MouseEvents == Pages

PageAt(dx, dy) == [pageX |-> Add(center.x, Num(dx, 1)), pageY |-> Add(center.y, Num(dy, 1))]

\* where a finger lands: right of the center, above it to the left, below it
TouchPages == {PageAt(1, 0), PageAt(-1, -1), PageAt(0, 1)}

\* trusted single touches; untrusted, empty and multiple touches (the
\* handlers read no coordinate of those)
TouchEvents ==
  {[isTrusted |-> TRUE, changedTouches |-> <<p>>] : p \in TouchPages}
    \cup {[isTrusted |-> t, changedTouches |-> [i \in 1 .. n |-> PageAt(1, 0)]] :
            <<t, n>> \in {tn \in BOOLEAN \X (0 .. MaxTouches) : ~(tn[1] /\ tn[2] = 1)}}

\* what the user can type into the text field
TypedTexts ==
  {Num(0, 1), Num(10, 1), Num(50, 1), Num(100, 1), Num(25, 1), Num(-50, 1),
   Text(1), NumText(50, 1)}

(***************************************************************************)
(* Geometry shared by both controllers (part_000:257-313, knob.js:175-217) *)
(***************************************************************************)
getDistX(mouse) == Sub(mouse.x, center.x)

getDistY(mouse) == Sub(center.y, mouse.y)

\* Math.sqrt is irrational on most inputs: the hypotenuse is carried as its
\* square, which determines it
getDistHyp(mouse) ==
  Add(Mul(getDistX(mouse), getDistX(mouse)), Mul(getDistY(mouse), getDistY(mouse)))

getDistance(mouse) ==
  [x |-> getDistX(mouse), y |-> getDistY(mouse), hyp |-> getDistHyp(mouse)]

\* Math.asin(dist.y / dist.hyp) in units of pi radians, from the square of
\* the sine and the sign of dist.y; 0/0 is NaN
asinOf(sinSq, sgn) ==
  IF sinSq.k # "num" THEN NaN
  ELSE CASE sinSq = Num(0, 1) -> Num(0, 1)
         [] sinSq = Num(1, 2) -> Num(sgn, 4)
         [] sinSq = Num(1, 1) -> Num(sgn, 2)

getArcsine(dist) == asinOf(Div(Mul(dist.y, dist.y), dist.hyp), Sign(ToNumber(dist.y)))

\* angle * (180 / Math.PI), the angle being in units of pi radians
radToDeg(angle) == Mul(angle, Num(180, 1))

angleToCssAngle(degrees) == Mul(Num(-1, 1), Sub(degrees, Num(90, 1)))

getMousePosition(ev) == [x |-> ev.pageX, y |-> ev.pageY]

isSingleTouch(ev) == 1 = Len(ev.changedTouches)

isValidTouch(ev) == ev.isTrusted /\ isSingleTouch(ev)

\* `false` when the touch is not valid: reading .x or .y of it gives undefined
getTouchPosition(ev) ==
  IF isValidTouch(ev)
  THEN [x |-> ev.changedTouches[1].pageX, y |-> ev.changedTouches[1].pageY]
  ELSE [x |-> undefined, y |-> undefined]

Positions ==
  {getMousePosition(ev) : ev \in MouseEvents} \cup {getTouchPosition(ev) : ev \in TouchEvents}

distanceOf == [position \in Positions |-> getDistance(position)]

arcsineOf == [position \in Positions |-> radToDeg(getArcsine(getDistance(position)))]

(***************************************************************************)
(* The range-capable controller, src/unnamed/part_000.                     *)
(***************************************************************************)
Entry(a, v) == [angle |-> a, value |-> v]

\* a range entry the caller did not supply
Absent == Entry(undefined, undefined)

getDefaultSettings ==
  [initialAngle |-> Num(225, 1),
   range |-> [min |-> Entry(Num(225, 1), Num(0, 1)),
              max |-> Entry(Num(-45, 1), Num(100, 1))]]

getInitialMin(raw) ==
  IF raw.range.min = Absent THEN getDefaultSettings.range.min ELSE raw.range.min

getInitialMax(raw) ==
  IF raw.range.max = Absent THEN getDefaultSettings.range.max ELSE raw.range.max

getInitialRange(raw) == [min |-> getInitialMin(raw), max |-> getInitialMax(raw)]

initializeSettings(raw) ==
  [range        |-> getInitialRange(raw),
   initialAngle |-> IF Truthy(parseFloat(raw.initialAngle))
                    THEN parseFloat(raw.initialAngle)
                    ELSE getDefaultSettings.initialAngle]

\* mutant: the difference of the extreme values keeps its sign
getExtremeValuesDiff_signed == Sub(settings.range.max.value, settings.range.min.value)

getExtremeValuesDiff == Abs(Sub(settings.range.max.value, settings.range.min.value))

getExtremeValuesAngleDiff == Abs(Sub(settings.range.max.angle, settings.range.min.angle))

\* mutant: the direction of the range is taken to be always negative
getDirectionSign_negative == Num(-1, 1)

\* mutant: the direction of the range is taken to be always positive
getDirectionSign_positive == Num(1, 1)

getDirectionSign ==
  IF Gt(settings.range.max.angle, settings.range.min.angle) THEN Num(1, 1) ELSE Num(-1, 1)

getArcPercentForAngle(angle) ==
  Div(Abs(Sub(angle, settings.range.min.angle)), getExtremeValuesAngleDiff)

getValueForAngle(angle) ==
  Add(Mul(getArcPercentForAngle(angle), getExtremeValuesDiff), settings.range.min.value)

getValuePercent(value) ==
  Div(Abs(Sub(value, settings.range.min.value)), getExtremeValuesDiff)

getAngleForValue(value) ==
  Add(Mul(Mul(getValuePercent(value), getExtremeValuesAngleDiff), getDirectionSign),
      settings.range.min.angle)

isAngleInRange(angle) ==
  IF Gt(getDirectionSign, Num(0, 1))
  THEN Lt(settings.range.min.angle, angle) /\ Lt(angle, settings.range.max.angle)
  ELSE Lt(settings.range.max.angle, angle) /\ Lt(angle, settings.range.min.angle)

\* mutant: an angle out of range is kept as it is
replaceOutOfRangeAngle_kept(angle) == angle

replaceOutOfRangeAngle(angle) ==
  IF Lt(getArcPercentForAngle(angle), Num(1, 2))
  THEN settings.range.min.angle
  ELSE settings.range.max.angle

\* Math.floor(currentAngle / 360): a count of revolutions, added to degrees as it is
getFullRotationCount == Floor(Div(currentAngle, Num(360, 1)))

arcsineToAngle(arcsine, dist) ==
  IF Gt(dist.x, Num(0, 1))
  THEN Add(getFullRotationCount, arcsine)
  ELSE Add(getFullRotationCount, Sub(Num(180, 1), arcsine))

\* `dist` and `arcsine` of getAngle do not depend on the state: they are
\* tabulated over the positions the events can carry
getAngle(position) == arcsineToAngle(arcsineOf[position], distanceOf[position])

\* mutant: the current angle is set without rendering it
rotateKnobToAngle_unrendered(angle) ==
  /\ currentAngle' = angle
  /\ UNCHANGED transform

\* setCurrentAngle and setKnobCssRotationAmount
rotateKnobToAngle(angle) ==
  /\ currentAngle' = angle
  /\ transform' = angleToCssAngle(angle)

setInputValue(value) == inputValue' = value

\* mutant: the session records the angle the knob started at, not the current one
initializeInteraction_stale(position) ==
  /\ currentInteractionInitialKnobAngle' = settings.initialAngle
  /\ currentInteractionInitialClientAngle' = getAngle(position)

initializeInteraction(position) ==
  /\ currentInteractionInitialKnobAngle' = currentAngle
  /\ currentInteractionInitialClientAngle' = getAngle(position)

\* mutant: the pointer's angle at the begin of the session is not subtracted
candidateAngle_absolute(position) ==
  Add(currentInteractionInitialKnobAngle, getAngle(position))

\* lines 244-247: the local newKnobAngle as first computed
candidateAngle(position) ==
  Add(currentInteractionInitialKnobAngle,
      Sub(getAngle(position), currentInteractionInitialClientAngle))

\* lines 249-251
applyRange(angle) ==
  IF ~isAngleInRange(angle) THEN replaceOutOfRangeAngle(angle) ELSE angle

\* lines 253-254
commitAngle(angle) ==
  /\ rotateKnobToAngle(angle)
  /\ setInputValue(getValueForAngle(angle))

updateKnobFromClientPosition(position) ==
  /\ newKnobAngle' = candidateAngle(position)
  /\ commitAngle(applyRange(candidateAngle(position)))

rotateKnobToValue(value) == rotateKnobToAngle(getAngleForValue(value))

\* a handler runs only once addEventListeners has registered it
Handled(type, position) ==
  /\ nEvents < MaxEvents
  /\ pc = "listening"
  /\ UNCHANGED <<pc, given>>
  /\ nEvents' = nEvents + 1
  /\ event' = [type |-> type, position |-> position]

Session == <<currentInteractionInitialKnobAngle, currentInteractionInitialClientAngle>>

Knob == <<currentAngle, transform>>

dragstart(ev) ==
  /\ Handled("dragstart", getMousePosition(ev))
  /\ isDraggingKnob' = TRUE
  /\ initializeInteraction(getMousePosition(ev))
  /\ UNCHANGED <<settings, Knob, inputValue, newKnobAngle>>

dragend ==
  /\ Handled("dragend", [x |-> undefined, y |-> undefined])
  /\ isDraggingKnob' = FALSE
  /\ UNCHANGED <<settings, Knob, Session, inputValue, newKnobAngle>>

dragover(ev) ==
  /\ Handled("dragover", getMousePosition(ev))
  /\ IF isDraggingKnob
     THEN updateKnobFromClientPosition(getMousePosition(ev))
     ELSE UNCHANGED <<Knob, inputValue, newKnobAngle>>
  /\ UNCHANGED <<settings, isDraggingKnob, Session>>

touchstart(ev) ==
  /\ Handled("touchstart", getTouchPosition(ev))
  /\ initializeInteraction(getTouchPosition(ev))
  /\ UNCHANGED <<settings, isDraggingKnob, Knob, inputValue, newKnobAngle>>

touchmove(ev) ==
  /\ Handled("touchmove", getTouchPosition(ev))
  /\ updateKnobFromClientPosition(getTouchPosition(ev))
  /\ UNCHANGED <<settings, isDraggingKnob, Session>>

\* the user has typed `text` into the field, which fires `change`
changeInputValue(text) ==
  /\ Handled("change", [x |-> undefined, y |-> undefined])
  /\ inputValue' = text
  /\ IF Truthy(parseFloat(text)) \/ parseFloat(text) = Num(0, 1)
     THEN rotateKnobToValue(parseFloat(text))
     ELSE UNCHANGED Knob
  /\ UNCHANGED <<settings, isDraggingKnob, Session, newKnobAngle>>

RangeUp == [min |-> Entry(Num(-90, 1), Num(0, 1)), max |-> Entry(Num(90, 1), Num(10, 1))]

RangeDown == [min |-> Entry(Num(180, 1), Num(10, 1)), max |-> Entry(Num(0, 1), Num(0, 1))]

\* what the caller passes as settings
RawSettings ==
  {[initialAngle |-> undefined,  range |-> [min |-> Absent, max |-> Absent]],
   [initialAngle |-> Num(0, 1),  range |-> RangeUp],
   [initialAngle |-> Num(90, 1), range |-> RangeDown]}

getInitialValue == getValueForAngle(settings.initialAngle)

\* initializeKnob, after the declarations of lines 38-47
initializeKnob ==
  /\ inputValue = getInitialValue
  /\ currentAngle = settings.initialAngle
  /\ transform = angleToCssAngle(settings.initialAngle)
  /\ isDraggingKnob = FALSE
  /\ currentInteractionInitialKnobAngle = null
  /\ currentInteractionInitialClientAngle = null
  /\ newKnobAngle = null
  /\ event = [type |-> "load", position |-> [x |-> undefined, y |-> undefined]]
  /\ nEvents = 0
  /\ pc = "listening"

\* the state the constructor leaves
KnobInput(raw) ==
  /\ given = raw
  /\ settings = initializeSettings(raw)
  /\ initializeKnob

Init == \E raw \in RawSettings : KnobInput(raw)

Next ==
  \/ \E ev \in MouseEvents : dragstart(ev)
  \/ dragend
  \/ \E ev \in MouseEvents : dragover(ev)
  \/ \E ev \in TouchEvents : touchstart(ev)
  \/ \E ev \in TouchEvents : touchmove(ev)
  \/ \E text \in TypedTexts : changeInputValue(text)

Spec == Init /\ [][Next]_vars

(***************************************************************************)
(* The constructor of the range-capable controller on settings of every    *)
(* kind, valid or not.  settings.el is a knob component in all of them.    *)
(***************************************************************************)
isValidInitialAngle(raw) ==
  ~Truthy(raw.initialAngle) \/ Truthy(parseFloat(raw.initialAngle))

isValidMin(raw) ==
  \/ raw.range.min = Absent
  \/ IsNumberType(raw.range.min.angle) /\ IsNumberType(raw.range.min.value)

isValidMax(raw) ==
  \/ raw.range.max = Absent
  \/ IsNumberType(raw.range.max.angle) /\ IsNumberType(raw.range.max.value)

isValidSettings(raw) == isValidInitialAngle(raw) /\ isValidMin(raw) /\ isValidMax(raw)

NoRange == [min |-> Absent, max |-> Absent]

\* a range whose two angles coincide
RangeFlat == [min |-> Entry(Num(90, 1), Num(0, 1)), max |-> Entry(Num(90, 1), Num(10, 1))]

\* what a caller can pass: no initial angle, 0, "", NaN, "abc", a number with
\* a range, malformed range entries, a range without angular span
GivenSettings ==
  {[initialAngle |-> undefined,   range |-> NoRange],
   [initialAngle |-> Num(0, 1),   range |-> NoRange],
   [initialAngle |-> Text(0),     range |-> NoRange],
   [initialAngle |-> NaN,         range |-> NoRange],
   [initialAngle |-> Text(1),     range |-> NoRange],
   [initialAngle |-> Num(45, 1),  range |-> RangeUp],
   [initialAngle |-> undefined,
    range |-> [min |-> Entry(Text(1), Num(0, 1)), max |-> Absent]],
   [initialAngle |-> undefined,
    range |-> [min |-> Absent, max |-> Entry(Num(90, 1), undefined)]],
   [initialAngle |-> Num(90, 1),  range |-> RangeFlat]}

\* the early return of line 35: the settings are as given, no variable of
\* the closure exists and no handler is registered
returnedEarly(raw) ==
  /\ given = raw
  /\ settings = raw
  /\ pc = "returned"
  /\ inputValue = null
  /\ currentAngle = null
  /\ transform = null
  /\ isDraggingKnob = FALSE
  /\ currentInteractionInitialKnobAngle = null
  /\ currentInteractionInitialClientAngle = null
  /\ newKnobAngle = null
  /\ event = [type |-> "load", position |-> [x |-> undefined, y |-> undefined]]
  /\ nEvents = 0

InitConstruct ==
  \E raw \in GivenSettings :
    IF isValidSettings(raw) THEN KnobInput(raw) ELSE returnedEarly(raw)

SpecConstruct == InitConstruct /\ [][Next]_vars

(***************************************************************************)
(* The range-less controller, src/knob.js.                                 *)
(***************************************************************************)
knob_getDefaultSettings == [initialAngle |-> Num(90, 1)]

knob_initializeSettings(raw) ==
  [initialAngle |-> IF Truthy(parseFloat(raw.initialAngle))
                    THEN parseFloat(raw.initialAngle)
                    ELSE knob_getDefaultSettings.initialAngle]

knob_arcsineToAngle(arcsine, dist) ==
  IF Gt(dist.x, Num(0, 1))
  THEN Mod(Add(Num(360, 1), arcsine), Num(360, 1))
  ELSE Sub(Num(180, 1), arcsine)

knob_getAngle(position) == knob_arcsineToAngle(arcsineOf[position], distanceOf[position])

knob_initializeInteraction(position) ==
  /\ currentInteractionInitialKnobAngle' = currentAngle
  /\ currentInteractionInitialClientAngle' = knob_getAngle(position)

\* mutant: the pointer's angle at the begin of the session is not subtracted
knob_candidateAngle_absolute(position) ==
  Add(currentInteractionInitialKnobAngle, knob_getAngle(position))

\* lines 166-169: the local newKnobAngle
knob_candidateAngle(position) ==
  Add(currentInteractionInitialKnobAngle,
      Sub(knob_getAngle(position), currentInteractionInitialClientAngle))

\* lines 171-172
knob_commitAngle(angle) ==
  /\ rotateKnobToAngle(angle)
  /\ setInputValue(angle)

knob_updateKnobFromClientPosition(position) ==
  /\ newKnobAngle' = knob_candidateAngle(position)
  /\ knob_commitAngle(knob_candidateAngle(position))

knob_dragstart(ev) ==
  /\ Handled("dragstart", getMousePosition(ev))
  /\ isDraggingKnob' = TRUE
  /\ knob_initializeInteraction(getMousePosition(ev))
  /\ UNCHANGED <<settings, Knob, inputValue, newKnobAngle>>

knob_dragend ==
  /\ Handled("dragend", [x |-> undefined, y |-> undefined])
  /\ isDraggingKnob' = FALSE
  /\ UNCHANGED <<settings, Knob, Session, inputValue, newKnobAngle>>

knob_dragover(ev) ==
  /\ Handled("dragover", getMousePosition(ev))
  /\ IF isDraggingKnob
     THEN knob_updateKnobFromClientPosition(getMousePosition(ev))
     ELSE UNCHANGED <<Knob, inputValue, newKnobAngle>>
  /\ UNCHANGED <<settings, isDraggingKnob, Session>>

knob_touchstart(ev) ==
  /\ Handled("touchstart", getTouchPosition(ev))
  /\ knob_initializeInteraction(getTouchPosition(ev))
  /\ UNCHANGED <<settings, isDraggingKnob, Knob, inputValue, newKnobAngle>>

knob_touchmove(ev) ==
  /\ Handled("touchmove", getTouchPosition(ev))
  /\ knob_updateKnobFromClientPosition(getTouchPosition(ev))
  /\ UNCHANGED <<settings, isDraggingKnob, Session>>

\* the user has typed `text` into the field, which fires `change`
knob_changeInputValue(text) ==
  /\ Handled("change", [x |-> undefined, y |-> undefined])
  /\ inputValue' = text
  /\ IF Truthy(parseFloat(text))
     THEN rotateKnobToAngle(parseFloat(text))
     ELSE UNCHANGED Knob
  /\ UNCHANGED <<settings, isDraggingKnob, Session, newKnobAngle>>

knob_RawSettings == {[initialAngle |-> undefined], [initialAngle |-> Num(-45, 1)]}

knob_initializeKnob ==
  /\ currentAngle = settings.initialAngle
  /\ transform = angleToCssAngle(settings.initialAngle)
  /\ inputValue = settings.initialAngle
  /\ isDraggingKnob = FALSE
  /\ currentInteractionInitialKnobAngle = null
  /\ currentInteractionInitialClientAngle = null
  /\ newKnobAngle = null
  /\ event = [type |-> "load", position |-> [x |-> undefined, y |-> undefined]]
  /\ nEvents = 0
  /\ pc = "listening"

\* the state the constructor of knob.js leaves
knob_KnobInput(raw) ==
  /\ given = raw
  /\ settings = knob_initializeSettings(raw)
  /\ knob_initializeKnob

InitKnob == \E raw \in knob_RawSettings : knob_KnobInput(raw)

NextKnob ==
  \/ \E ev \in MouseEvents : knob_dragstart(ev)
  \/ knob_dragend
  \/ \E ev \in MouseEvents : knob_dragover(ev)
  \/ \E ev \in TouchEvents : knob_touchstart(ev)
  \/ \E ev \in TouchEvents : knob_touchmove(ev)
  \/ \E text \in TypedTexts : knob_changeInputValue(text)

SpecKnob == InitKnob /\ [][NextKnob]_vars

(***************************************************************************)
(* Vocabulary of the properties.                                           *)
(***************************************************************************)
NoPosition == [x |-> undefined, y |-> undefined]

CenterPosition == [x |-> center.x, y |-> center.y]

\* the last event was a move whose handler ran updateKnobFromClientPosition
UpdateRan ==
  \/ event.type = "dragover" /\ isDraggingKnob
  \/ event.type = "touchmove"

LowAngle ==
  IF Lt(settings.range.min.angle, settings.range.max.angle)
  THEN settings.range.min.angle ELSE settings.range.max.angle

HighAngle ==
  IF Lt(settings.range.min.angle, settings.range.max.angle)
  THEN settings.range.max.angle ELSE settings.range.min.angle

InClosedRange(angle) == Le(LowAngle, angle) /\ Le(angle, HighAngle)

(***************************************************************************)
(* C1: after any update that runs during a drag or touch session, the      *)
(* current angle lies in the closed interval spanned by range.min.angle    *)
(* and range.max.angle, whatever the pointer position and whatever the     *)
(* angle was when the session began.                                       *)
(***************************************************************************)
C1_UpdateKeepsAngleInRange == UpdateRan => InClosedRange(currentAngle)

\* a session that began outside the range, and an update whose candidate left it
C1_Witness ==
  /\ UpdateRan
  /\ currentInteractionInitialKnobAngle.k = "num"
  /\ ~InClosedRange(currentInteractionInitialKnobAngle)
  /\ newKnobAngle.k = "num"
  /\ ~InClosedRange(newKnobAngle)
  /\ InClosedRange(currentAngle)

(***************************************************************************)
(* C2: when an update computes a candidate angle outside the range, the    *)
(* committed angle is the bound that is angularly closer to the candidate. *)
(* Closeness is read both ways: as the plain difference of the two angles  *)
(* and as the arc between them on the circle; the committed bound has to   *)
(* be the closer one under at least one reading.                           *)
(***************************************************************************)
Distance(a, b) == Abs(Sub(a, b))

Shorter(m) == IF Lt(Sub(Num(360, 1), m), m) THEN Sub(Num(360, 1), m) ELSE m

ArcDistance(a, b) == Shorter(Mod(Distance(a, b), Num(360, 1)))

OtherBound(angle) ==
  IF angle = settings.range.min.angle
  THEN settings.range.max.angle ELSE settings.range.min.angle

C2_SnapsToCloserBound ==
  (/\ UpdateRan
   /\ currentInteractionInitialKnobAngle.k = "num"
   /\ newKnobAngle.k = "num"
   /\ ~isAngleInRange(newKnobAngle))
  => /\ currentAngle \in {settings.range.min.angle, settings.range.max.angle}
     /\ \/ Le(Distance(newKnobAngle, currentAngle),
              Distance(newKnobAngle, OtherBound(currentAngle)))
        \/ Le(ArcDistance(newKnobAngle, currentAngle),
              ArcDistance(newKnobAngle, OtherBound(currentAngle)))

(***************************************************************************)
(* C3: the knob and the text field are two-way bound: after construction,  *)
(* after every committed update and after every numeric entry in the text  *)
(* field, the number the field holds is the value of the current angle.    *)
(***************************************************************************)
C3_FieldShowsValueOfAngle ==
  (\/ event.type = "load"
   \/ UpdateRan
   \/ event.type = "change" /\ parseFloat(inputValue).k = "num")
  => parseFloat(inputValue) = getValueForAngle(currentAngle)

(***************************************************************************)
(* C4: a touchstart or touchmove that is not a genuine single-point        *)
(* gesture (untrusted, or not exactly one changed touch) is ignored: the   *)
(* current angle, the displayed value and the session are unchanged.       *)
(***************************************************************************)
C4_InvalidTouchIgnored ==
  [][(\E ev \in TouchEvents :
        /\ ~isValidTouch(ev)
        /\ touchstart(ev) \/ touchmove(ev))
     => UNCHANGED <<currentAngle, transform, inputValue, isDraggingKnob, Session>>]_vars

(***************************************************************************)
(* C5: an update is a no-op while the controller is idle: a move event     *)
(* that arrives before the first begin of a session, or right after the    *)
(* end of one, leaves the current angle and the displayed value unchanged. *)
(***************************************************************************)
Idle ==
  \/ currentInteractionInitialKnobAngle = null /\ ~isDraggingKnob
  \/ event.type = "dragend"

C5_IdleUpdateIsNoOp ==
  [][(/\ Idle
      /\ \/ \E ev \in MouseEvents : dragover(ev)
         \/ \E ev \in TouchEvents : touchmove(ev))
     => UNCHANGED <<currentAngle, transform, inputValue>>]_vars

(***************************************************************************)
(* C6: beginning and ending a session never change the knob: a begin only  *)
(* records the session (the current angle and the pointer's angle), an end *)
(* only leaves the dragging state; the current angle, the rendered         *)
(* rotation and the displayed value are unchanged by both.                 *)
(***************************************************************************)
C6_BeginEndKeepKnob ==
  [][/\ (\E ev \in MouseEvents : dragstart(ev))
          => /\ UNCHANGED <<currentAngle, transform, inputValue>>
             /\ currentInteractionInitialKnobAngle' = currentAngle
             /\ currentInteractionInitialClientAngle' = getAngle(event'.position)
             /\ isDraggingKnob'
     /\ (\E ev \in TouchEvents : touchstart(ev))
          => /\ UNCHANGED <<currentAngle, transform, inputValue, isDraggingKnob>>
             /\ currentInteractionInitialKnobAngle' = currentAngle
             /\ currentInteractionInitialClientAngle' = getAngle(event'.position)
     /\ dragend
          => /\ UNCHANGED <<currentAngle, transform, inputValue, Session>>
             /\ ~isDraggingKnob']_vars

\* a session resumed after the knob has been turned away from its initial angle
C6_Witness ==
  /\ event.type \in {"dragstart", "touchstart"}
  /\ nEvents = 3
  /\ currentAngle # settings.initialAngle
  /\ currentInteractionInitialKnobAngle = currentAngle

(***************************************************************************)
(* C7: zero delta is idempotent: an update at the pointer position where   *)
(* the session has just begun, other than the center, computes a candidate *)
(* angle equal to the session's initial knob angle, which is the current   *)
(* angle at the moment of the begin.                                       *)
(***************************************************************************)
C7_ZeroDeltaIsIdempotent ==
  [][(/\ event.type \in {"dragstart", "touchstart"}
      /\ event.position \notin {NoPosition, CenterPosition}
      /\ event'.position = event.position
      /\ \/ event'.type = "touchmove"
         \/ event'.type = "dragover" /\ isDraggingKnob)
     => /\ newKnobAngle' = currentInteractionInitialKnobAngle
        /\ newKnobAngle' = currentAngle]_vars

\* an update that ran at the position where the session began, the knob
\* having been turned before
C7_Witness ==
  /\ UpdateRan
  /\ nEvents = 3
  /\ event.position \notin {NoPosition, CenterPosition}
  /\ currentInteractionInitialClientAngle = getAngle(event.position)
  /\ newKnobAngle = currentInteractionInitialKnobAngle
  /\ newKnobAngle.k = "num"
  /\ newKnobAngle # settings.initialAngle

(***************************************************************************)
(* C8: an entry in the text field commits the angle of the entered value   *)
(* for every numeric, non-NaN value, 0 included, and is a no-op for any    *)
(* other entry.  In the range-less controller the field holds the angle    *)
(* itself.                                                                 *)
(***************************************************************************)
IsNumeric(v) == v.k \in {"num", "inf"}

C8_SetValueCommitsEveryNumber ==
  [][\A text \in TypedTexts :
       knob_changeInputValue(text)
         => IF IsNumeric(parseFloat(text))
            THEN currentAngle' = parseFloat(text)
                 /\ transform' = angleToCssAngle(parseFloat(text))
            ELSE UNCHANGED <<currentAngle, transform>>]_vars

\* the same statement for the range-capable controller, whose handler tests for 0
C8_RangeCapable ==
  [][\A text \in TypedTexts :
       changeInputValue(text)
         => IF IsNumeric(parseFloat(text))
            THEN currentAngle' = getAngleForValue(parseFloat(text))
                 /\ transform' = angleToCssAngle(getAngleForValue(parseFloat(text)))
            ELSE UNCHANGED <<currentAngle, transform>>]_vars

(***************************************************************************)
(* C9: with the default range and no initial angle the controller starts   *)
(* at angle 225 showing value 0; entering 100 turns the knob to -45 and    *)
(* entering 50 turns it to 90, in any order and whatever sessions took     *)
(* place in between.                                                       *)
(***************************************************************************)
DefaultRangeInUse ==
  /\ settings.range.min = Entry(Num(225, 1), Num(0, 1))
  /\ settings.range.max = Entry(Num(-45, 1), Num(100, 1))
  /\ settings.initialAngle = Num(225, 1)

ProbeAngles ==
  {Num(-89, 1), Num(-44, 1), Num(-1, 3), Num(1, 1), Num(45, 2), Num(30, 1),
   Num(89, 1), Num(135, 1), Num(179, 1), Num(449, 2)}

\* the settings never change after construction: the probe angles are tried
\* in the state the constructor leaves, the current angle in every state
C10_AngleValueRoundTrip ==
  \A a \in (IF nEvents = 0 THEN ProbeAngles ELSE {}) \cup {currentAngle} :
    isAngleInRange(a) => getAngleForValue(getValueForAngle(a)) = a

\* an angle strictly inside a range whose values decrease from min to max,
\* reached by turning the knob
C10_Witness ==
  /\ UpdateRan
  /\ Gt(settings.range.min.value, settings.range.max.value)
  /\ isAngleInRange(currentAngle)
  /\ currentAngle # settings.initialAngle
  /\ getAngleForValue(getValueForAngle(currentAngle)) = currentAngle

(***************************************************************************)
(* C11: in the range-less controller every update during a session commits *)
(* the session's initial knob angle plus the pointer's angle now minus the  *)
(* pointer's angle at the begin; with initial angle 90, a begin directly   *)
(* above the center (pointer angle 90) and an update directly right of it  *)
(* (pointer angle 0), the delta is -90 and the committed angle is 0.       *)
(***************************************************************************)
PositionRight == [x |-> Add(center.x, Num(1, 1)), y |-> center.y]

PositionAbove == [x |-> center.x, y |-> Sub(center.y, Num(1, 1))]

C11_RangelessUpdateCommitsDelta ==
  (UpdateRan /\ currentInteractionInitialKnobAngle # null)
  => /\ currentAngle =
          Add(currentInteractionInitialKnobAngle,
              Sub(knob_getAngle(event.position), currentInteractionInitialClientAngle))
     /\ inputValue = currentAngle
     /\ (/\ currentInteractionInitialKnobAngle = Num(90, 1)
         /\ currentInteractionInitialClientAngle = knob_getAngle(PositionAbove)
         /\ event.position = PositionRight)
        => /\ knob_getAngle(PositionAbove) = Num(90, 1)
           /\ knob_getAngle(PositionRight) = Num(0, 1)
           /\ currentAngle = Num(0, 1)

\* the scenario: initial angle 90, begin above the center, update right of it
C11_Witness ==
  /\ UpdateRan
  /\ settings.initialAngle = Num(90, 1)
  /\ currentInteractionInitialKnobAngle = Num(90, 1)
  /\ currentInteractionInitialClientAngle = Num(90, 1)
  /\ event.position = PositionRight
  /\ newKnobAngle = Num(0, 1)
  /\ currentAngle = Num(0, 1)

(***************************************************************************)
(* C12: invalid settings degrade silently: when initialAngle is supplied   *)
(* but not numeric, or range.min or range.max is supplied with an angle or *)
(* value that is not a number, the constructor returns without creating    *)
(* state or registering a handler, so that no event ever produces an angle *)
(* or a value.  An initial angle is supplied when the settings hold one,   *)
(* and numeric when parseFloat reads a number from it.                     *)
(***************************************************************************)
Supplied(v) == v # undefined

NonNumeric(v) == ~IsNumeric(parseFloat(v))

Malformed(entry) ==
  /\ entry # Absent
  /\ ~(IsNumberType(entry.angle) /\ IsNumberType(entry.value))

NothingCreated ==
  /\ pc = "returned"
  /\ currentAngle = null
  /\ transform = null
  /\ inputValue = null
  /\ Session = <<null, null>>
  /\ nEvents = 0

C12_InvalidSettingsAbstain ==
  (\/ Supplied(given.initialAngle) /\ NonNumeric(given.initialAngle)
   \/ Malformed(given.range.min)
   \/ Malformed(given.range.max))
  => NothingCreated

\* the part that holds: a text without a number and a malformed range entry
\* are rejected, and a rejected controller never handles an event
C12_TextAndMalformedRangeAbstain ==
  /\ (\/ given.initialAngle.k = "text" /\ Truthy(given.initialAngle)
      \/ Malformed(given.range.min)
      \/ Malformed(given.range.max)) => NothingCreated
  /\ pc = "returned" => NothingCreated

(***************************************************************************)
(* C13: the knob starts at the configured initial angle for every number   *)
(* supplied as initialAngle; the default, 225, is where it starts only     *)
(* when no initial angle is supplied.                                      *)
(***************************************************************************)
C13_StartsAtConfiguredAngle ==
  (pc = "listening" /\ event.type = "load")
  => /\ given.initialAngle.k = "num" => currentAngle = given.initialAngle
     /\ ~Supplied(given.initialAngle)
          => currentAngle = getDefaultSettings.initialAngle

(***************************************************************************)
(* C14: every controller that has initialized has a range whose two angles *)
(* differ, so that the angular span the mappings divide by is not zero;    *)
(* settings without angular span are rejected by the constructor.          *)
(***************************************************************************)
C14_AngularSpanIsNotZero ==
  /\ pc = "listening"
       => /\ settings.range.min.angle # settings.range.max.angle
          /\ getExtremeValuesAngleDiff # Num(0, 1)
  /\ given.range.min.angle = given.range.max.angle /\ given.range.min # Absent
       => pc = "returned"

(***************************************************************************)
(* C15: in every reachable state of an initialized controller the rotation *)
(* rendered on the knob is -(current angle - 90) degrees: construction,    *)
(* updates and entries in the field change the current angle only together *)
(* with the rendered rotation.  The current angle is a finite number in    *)
(* all these states, so the rotation is one a style accepts.               *)
(***************************************************************************)
C15_RenderedRotationFollowsAngle ==
  pc = "listening"
  => /\ currentAngle.k = "num"
     /\ transform = Neg(Sub(currentAngle, Num(90, 1)))

\* an entry in the field after an update of a session, both having turned the knob
C15_Witness ==
  /\ event.type = "change"
  /\ newKnobAngle.k = "num"
  /\ newKnobAngle # settings.initialAngle
  /\ currentAngle \notin {settings.initialAngle, newKnobAngle,
                           settings.range.min.angle, settings.range.max.angle}
  /\ transform = Neg(Sub(currentAngle, Num(90, 1)))

(***************************************************************************)
(* C16: the pointer's angle is continuous around the circle: with the      *)
(* current angle held fixed, two neighbouring pointer positions around the *)
(* center, an angular step d apart, have computed angles that differ by d  *)
(* in magnitude, never by about 360, everywhere on the circle, the         *)
(* crossings of the positive x-axis and of the negative y-axis included.   *)
(* The positions tried are the eight directions of the axes and diagonals, *)
(* d = 45 degrees apart; the computed angle does not depend on the radius. *)
(***************************************************************************)
\* counter-clockwise from the positive x-axis; page y grows downwards
Ring ==
  <<PageAt(1, 0), PageAt(1, -1), PageAt(0, -1), PageAt(-1, -1),
    PageAt(-1, 0), PageAt(-1, 1), PageAt(0, 1), PageAt(1, 1)>>

RingPosition(i) == getMousePosition(Ring[((i - 1) % 8) + 1])

RingStep == Num(45, 1)

C16_AngleOfIsContinuous ==
  \A i \in 1 .. 8 :
    Distance(getAngle(RingPosition(i)), getAngle(RingPosition(i + 1))) = RingStep

\* the same statement for the range-less controller
C16_RangelessAngleOfIsContinuous ==
  \A i \in 1 .. 8 :
    Distance(knob_getAngle(RingPosition(i)), knob_getAngle(RingPosition(i + 1))) = RingStep

(***************************************************************************)
(* C17: within one session the committed angle is path-independent: the    *)
(* angle an update commits depends only on the session's initial knob      *)
(* angle, the session's initial pointer angle and the pointer position, not *)
(* on the positions visited before in the session; moving the pointer away *)
(* and back to the position of the begin restores the angle an update at   *)
(* that position commits right after the begin.  The function of session   *)
(* and position is the one an update computes right after the begin, when  *)
(* the current angle is the session's initial knob angle.                  *)
(***************************************************************************)
\* the pointer's angle as computed while the current angle is knobAngle
PointerAngleAt(position, knobAngle) ==
  Add(Sub(getAngle(position), getFullRotationCount),
      Floor(Div(knobAngle, Num(360, 1))))

FirstUpdateCommits(position) ==
  applyRange(Add(currentInteractionInitialKnobAngle,
                 Sub(PointerAngleAt(position, currentInteractionInitialKnobAngle),
                     currentInteractionInitialClientAngle)))

SessionEvent ==
  \/ event.type \in {"dragstart", "touchstart", "touchmove"}
  \/ event.type = "dragover" /\ isDraggingKnob

C17_CommittedAngleIsPathIndependent ==
  [][(/\ SessionEvent
      /\ event.position \notin {NoPosition, CenterPosition}
      /\ currentInteractionInitialKnobAngle.k = "num"
      /\ currentInteractionInitialClientAngle.k = "num"
      /\ UpdateRan'
      /\ event'.position \notin {NoPosition, CenterPosition})
     => currentAngle' = FirstUpdateCommits(event'.position)]_vars

(***************************************************************************)
(* C18: in every reachable state of the range-capable controller, after    *)
(* construction and any sequence of begins, updates, ends and entries of   *)
(* numbers in the field, the current angle lies in the closed interval     *)
(* bounded by range.min.angle and range.max.angle.                         *)
(***************************************************************************)
C18_AngleAlwaysInRange == pc = "listening" => InClosedRange(currentAngle)

(***************************************************************************)
(* C19: the term the range-capable computation adds to a freshly computed  *)
(* pointer angle is a whole number of revolutions, 360 * floor(current     *)
(* angle / 360), for every current angle, negative ones included; so the   *)
(* angle computed for a fixed pointer position is congruent modulo 360 for *)
(* all current angles.                                                     *)
(***************************************************************************)
\* the angle of the i-th direction of the ring within the first revolution
RingAngle(i) == Num(45 * (i - 1), 1)

C19_RevolutionTermIsWholeTurns ==
  /\ getFullRotationCount = Mul(Num(360, 1), Floor(Div(currentAngle, Num(360, 1))))
  /\ \A i \in 1 .. 8 :
       Mod(Sub(getAngle(RingPosition(i)), RingAngle(i)), Num(360, 1)) = Num(0, 1)

(***************************************************************************)
(* C20: the mapping from angles to values hits both endpoints for every    *)
(* valid range, whichever of min.value and max.value is larger and         *)
(* whichever direction the angles have: the value of range.min.angle is    *)
(* range.min.value, the value of range.max.angle is range.max.value, and   *)
(* the value of the angle of v is v for every v between the two values.    *)
(***************************************************************************)
ProbeValues ==
  {Num(0, 1), Num(1, 3), Num(5, 2), Num(5, 1), Num(10, 1), Num(25, 1),
   Num(50, 1), Num(201, 2), Num(100, 1)}

BetweenValues(v) ==
  \/ Le(settings.range.min.value, v) /\ Le(v, settings.range.max.value)
  \/ Le(settings.range.max.value, v) /\ Le(v, settings.range.min.value)

\* the settings never change after construction: the mapping is probed in
\* the state the constructor leaves
C20_ValueMappingHitsEndpoints ==
  event.type = "load"
  => /\ getValueForAngle(settings.range.min.angle) = settings.range.min.value
     /\ getValueForAngle(settings.range.max.angle) = settings.range.max.value
     /\ \A v \in ProbeValues :
          BetweenValues(v) => getValueForAngle(getAngleForValue(v)) = v

(***************************************************************************)
(* C21: every value the controller writes to the field, at construction    *)
(* from the initial angle and on every update, lies in the closed interval *)
(* between range.min.value and range.max.value, for every valid range and  *)
(* every numeric initial angle.                                            *)
(***************************************************************************)
C21_WrittenValuesAreInRange ==
  (pc = "listening" /\ (event.type = "load" \/ UpdateRan))
  => BetweenValues(inputValue)

(***************************************************************************)
(* C22: an entry in the field bypasses the session logic: it leaves the    *)
(* dragging state and the session (its initial knob angle and its initial  *)
(* pointer angle) unchanged, so an update that follows the entry inside    *)
(* the same session commits the angle it would have committed had the      *)
(* entry not been made.                                                    *)
(***************************************************************************)
\* the angle an update at `position` commits in this session while the
\* current angle is knobAngle
WouldCommit(position, knobAngle) ==
  applyRange(Add(currentInteractionInitialKnobAngle,
                 Sub(PointerAngleAt(position, knobAngle),
                     currentInteractionInitialClientAngle)))

C22_EntryLeavesSessionOutcome ==
  [][(\E text \in TypedTexts : changeInputValue(text))
     => /\ UNCHANGED <<isDraggingKnob, Session>>
        /\ (/\ currentInteractionInitialKnobAngle.k = "num"
            /\ currentInteractionInitialClientAngle.k = "num")
           => \A ev \in MouseEvents :
                WouldCommit(getMousePosition(ev), currentAngle')
                  = WouldCommit(getMousePosition(ev), currentAngle)]_vars

\* the frame part alone: the entry changes neither the dragging state nor the session
C22_EntryKeepsSession ==
  [][(\E text \in TypedTexts : changeInputValue(text))
     => UNCHANGED <<isDraggingKnob, Session>>]_vars

(***************************************************************************)
(* C23: degenerate geometry is ignored: an update whose pointer position   *)
(* is exactly the center of the knob (distance 0, no angle) leaves the     *)
(* current angle and the displayed value as they were, and a begin at the  *)
(* center does not make the next update of the session commit an undefined *)
(* angle or snap to a bound: its candidate is a number and, when in range, *)
(* is what is committed.                                                   *)
(***************************************************************************)
C23_CenterPointerIsIgnored ==
  [][/\ (UpdateRan' /\ event'.position = CenterPosition)
          => UNCHANGED <<currentAngle, transform, inputValue>>
     /\ (/\ event.type \in {"dragstart", "touchstart"}
         /\ event.position = CenterPosition
         /\ UpdateRan'
         /\ event'.position \notin {NoPosition, CenterPosition})
          => /\ newKnobAngle'.k = "num"
             /\ currentAngle'.k = "num"
             /\ isAngleInRange(newKnobAngle') => currentAngle' = newKnobAngle']_vars

(***************************************************************************)
(* C24: the direction sign of the range is +1 if and only if               *)
(* range.max.angle > range.min.angle and -1 otherwise, and entering        *)
(* range.max.value commits range.max.angle while entering range.min.value  *)
(* commits range.min.angle, for ranges of either direction sign.           *)
(***************************************************************************)
C24_DirectionSignAndEndpoints ==
  /\ getDirectionSign \in {Num(1, 1), Num(-1, 1)}
  /\ getDirectionSign = Num(1, 1)
       <=> Gt(settings.range.max.angle, settings.range.min.angle)
  /\ (event.type = "change" /\ inputValue = settings.range.max.value)
       => currentAngle = settings.range.max.angle
  /\ (event.type = "change" /\ inputValue = settings.range.min.value)
       => currentAngle = settings.range.min.angle

\* range.max.value entered in a range of positive direction, after a session
\* has turned the knob elsewhere
C24_Witness ==
  /\ event.type = "change"
  /\ getDirectionSign = Num(1, 1)
  /\ inputValue = settings.range.max.value
  /\ currentAngle = settings.range.max.angle
  /\ newKnobAngle.k = "num"
  /\ newKnobAngle # settings.range.max.angle

====
